---- MODULE Spec2Model ----
(***************************************************************************)
(* Model of the product attribute selector (attribute_selector.py,        *)
(* utils.py, database.py, config.py).                                     *)
(*                                                                         *)
(* Strings are sequences of character tokens: every Chinese character is  *)
(* one token (its pinyin, made unique per character), every ASCII         *)
(* character of a value is one token, and a database column name is one   *)
(* token.  Python's `a in b` on strings is IsSubstr(a, b); on lists it is *)
(* InList(a, b).  None is the one-token value NoneVal.                    *)
(***************************************************************************)
EXTENDS Integers, Sequences, FiniteSets, TLC

VARIABLES
    pc,             \* position inside select_attribute_value
    request,        \* the arguments of the call, as the caller gave them
    attribute_name, \* local attribute_name, stripped (line 64)
    image_path,     \* local image_path, after the check of lines 53-61
    standard_attribute, \* result of find_standard_attribute (line 67)
    category,       \* the resolver that ran
    resolved,       \* selected_value as the resolver returned it
    selected_value, \* selected_value as returned to the caller
    calls,          \* the external capability calls made so far, in order
    matches,        \* the find_best_value_match calls made so far, in order
    now             \* the clock as the season resolver read it: year, month

vars == <<pc, request, attribute_name, image_path, standard_attribute, category,
          resolved, selected_value, calls, matches, now>>

(***************************************************************************)
(* Python string and list primitives                                      *)
(***************************************************************************)
EmptyStr == <<>>

NoneVal == <<"#None">>

\* Python truthiness of a str-or-None value
Truthy(v) == v # NoneVal /\ v # EmptyStr

\* a in b, for strings
IsSubstr(a, b) ==
    \E i \in 0..(Len(b) - Len(a)) : SubSeq(b, i + 1, i + Len(a)) = a

\* x in l, for lists
InList(x, l) == \E i \in 1..Len(l) : l[i] = x

IsSpace(c) == c = " "

\* str.strip()
RECURSIVE LStrip(_)
LStrip(s) == IF s # <<>> /\ IsSpace(Head(s)) THEN LStrip(Tail(s)) ELSE s

RECURSIVE RStrip(_)
RStrip(s) ==
    IF s # <<>> /\ IsSpace(s[Len(s)]) THEN RStrip(SubSeq(s, 1, Len(s) - 1)) ELSE s

Strip(s) == RStrip(LStrip(s))

\* any(keyword in name for keyword in keywords)
AnyKeywordIn(keywords, name) ==
    \E i \in 1..Len(keywords) : IsSubstr(keywords[i], name)

\* str(n) for a natural number n
Digit(d) ==
    CASE d = 0 -> "0" [] d = 1 -> "1" [] d = 2 -> "2" [] d = 3 -> "3"
      [] d = 4 -> "4" [] d = 5 -> "5" [] d = 6 -> "6" [] d = 7 -> "7"
      [] d = 8 -> "8" [] d = 9 -> "9"

RECURSIVE IntToStr(_)
IntToStr(n) == IF n < 10 THEN <<Digit(n)>> ELSE IntToStr(n \div 10) \o <<Digit(n % 10)>>

\* the first index i at which flags is TRUE, or 0: the position at which a
\* loop over a list returns, flags[i] being the loop's test on the i-th element
FirstIndex(flags) ==
    IF \E i \in 1..Len(flags) : flags[i]
    THEN CHOOSE i \in 1..Len(flags) : flags[i] /\ \A j \in 1..(i - 1) : ~flags[j]
    ELSE 0

(***************************************************************************)
(* config.py: ATTRIBUTE_MATCHING                                          *)
(***************************************************************************)
\* ATTRIBUTE_MATCHING["aliases"], in declared order: <<standard name, alias list>>
aliases == <<
    \* 鞋面材质: 帮面材质, 靴筒面材质, 鞋帮材质
    << <<"xie","mian","cai","zhi">>,
       << <<"bang","mian","cai","zhi">>, <<"xue","tong","mian","cai","zhi">>,
          <<"xie","bang","cai","zhi">> >> >>,
    \* 鞋底材质: 鞋底材质, 鞋底材料, 鞋底材料类型
    << <<"xie","di","cai","zhi">>,
       << <<"xie","di","cai","zhi">>, <<"xie","di","cai","liao">>,
          <<"xie","di","cai","liao","lei","xing">> >> >>,
    \* 鞋垫材质: 鞋垫材质, 鞋垫材料, 鞋垫材料类型
    << <<"xie","dian","cai","zhi">>,
       << <<"xie","dian","cai","zhi">>, <<"xie","dian","cai","liao">>,
          <<"xie","dian","cai","liao","lei","xing">> >> >>,
    \* 内里材质: 鞋面内里材质, 靴筒内里材质
    << <<"nei","li","cai","zhi">>,
       << <<"xie","mian","nei","li","cai","zhi">>,
          <<"xue","tong","nei","li","cai","zhi">> >> >>,
    \* 闭合方式: 鞋子闭合方式, 鞋扣方式
    << <<"bi","he","fang","shi4">>,
       << <<"xie","zi","bi","he","fang","shi4">>, <<"xie","kou4","fang","shi4">> >> >>,
    \* 开口深度: 开口深度, 开口大小
    << <<"kai","kou3","shen","du">>,
       << <<"kai","kou3","shen","du">>, <<"kai","kou3","da","xiao">> >> >>,
    \* 风格: 鞋子风格
    << <<"feng","ge">>, << <<"xie","zi","feng","ge">> >> >>,
    \* 款式: 鞋子款式
    << <<"kuan","shi4">>, << <<"xie","zi","kuan","shi4">> >> >>,
    \* 鞋头款式: 鞋头样式, 鞋尖样式
    << <<"xie","tou","kuan","shi4">>,
       << <<"xie","tou","yang","shi4">>, <<"xie","jian","yang","shi4">> >> >>,
    \* 鞋跟款式: 鞋跟样式, 后跟样式
    << <<"xie","gen","kuan","shi4">>,
       << <<"xie","gen","yang","shi4">>, <<"hou","gen","yang","shi4">> >> >>,
    \* 季节: 适用季节, 使用季节, 上市年份季节
    << <<"ji","jie">>,
       << <<"shi4fit","yong","ji","jie">>, <<"shi3","yong","ji","jie">>,
          <<"shang","shi4city","nian","fen","ji","jie">> >> >>,
    \* 后跟高: 鞋跟高度, 跟高, 鞋后跟高度
    << <<"hou","gen","gao">>,
       << <<"xie","gen","gao","du">>, <<"gen","gao">>,
          <<"xie","hou","gen","gao","du">> >> >>,
    \* 靴筒高度: 靴筒高, 筒高
    << <<"xue","tong","gao","du">>,
       << <<"xue","tong","gao">>, <<"tong","gao">> >> >>,
    \* 鞋底厚度: 前底厚度, 台高, 鞋底高度, 前底高度
    << <<"xie","di","hou4thick","du">>,
       << <<"qian","di","hou4thick","du">>, <<"tai","gao">>,
          <<"xie","di","gao","du">>, <<"qian","di","gao","du">> >> >>
>>

\* list(aliases.keys())
standard_attrs == [i \in 1..Len(aliases) |-> aliases[i][1]]

\* ATTRIBUTE_MATCHING["value_mapping"]["材质"]: <<standard value, trigger list>>
value_map_material == <<
    \* 真皮: 头层牛皮, 牛皮, 真牛皮, 二层牛皮(除牛反绒), 二层猪皮
    << <<"zhen","pi">>,
       << <<"tou","ceng","niu","pi">>, <<"niu","pi">>, <<"zhen","niu","pi">>,
          <<"er","ceng","niu","pi","(","chu","niu","fan","rong",")">>,
          <<"er","ceng","zhu","pi">> >> >>,
    \* 人造革: PU, PU革, 合成革, 人工革
    << <<"ren","zao","ge2">>,
       << <<"P","U">>, <<"P","U","ge2">>, <<"he","cheng","ge2">>,
          <<"ren","gong","ge2">> >> >>,
    \* 织物: 布料, 纺织物, 纺织
    << <<"zhi1","wu">>,
       << <<"bu","liao">>, <<"fang3","zhi1","wu">>, <<"fang3","zhi1">> >> >>
>>

\* ATTRIBUTE_MATCHING["value_mapping"]["闭合方式"]
value_map_closure == <<
    \* 系带: 鞋带, 系鞋带
    << <<"xi","dai">>, << <<"xie","dai">>, <<"xi","xie","dai">> >> >>,
    \* 魔术贴: 粘扣, 魔鬼贴, 尼龙贴
    << <<"mo","shu","tie">>,
       << <<"zhan","kou4">>, <<"mo","gui","tie">>, <<"ni","long","tie">> >> >>,
    \* 拉链: 侧拉链
    << <<"la","lian">>, << <<"ce","la","lian">> >> >>,
    \* 套脚: 一脚蹬, 懒人, 无扣, 直接套
    << <<"tao","jiao">>,
       << <<"yi","jiao","deng">>, <<"lan","ren">>, <<"wu2","kou4">>,
          <<"zhi2","jie1","tao">> >> >>
>>

\* ATTRIBUTE_MATCHING["value_mapping"]["后跟高"]
value_map_heel == <<
    \* 低跟(1-3cm): 1cm, 2cm, 3cm, 1-3cm, 低跟
    << <<"di1","gen","(","1","-","3","c","m",")">>,
       << <<"1","c","m">>, <<"2","c","m">>, <<"3","c","m">>,
          <<"1","-","3","c","m">>, <<"di1","gen">> >> >>,
    \* 中跟(3-5cm): 3-5cm, 4cm, 5cm, 中跟
    << <<"zhong","gen","(","3","-","5","c","m",")">>,
       << <<"3","-","5","c","m">>, <<"4","c","m">>, <<"5","c","m">>,
          <<"zhong","gen">> >> >>,
    \* 高跟(5-8cm): 5-8cm, 6cm, 7cm, 8cm, 高跟
    << <<"gao","gen","(","5","-","8","c","m",")">>,
       << <<"5","-","8","c","m">>, <<"6","c","m">>, <<"7","c","m">>,
          <<"8","c","m">>, <<"gao","gen">> >> >>,
    \* 超高跟(8cm以上): 8cm以上, 9cm, 10cm, 超高跟
    << <<"chao","gao","gen","(","8","c","m","yi3","shang",")">>,
       << <<"8","c","m","yi3","shang">>, <<"9","c","m">>, <<"1","0","c","m">>,
          <<"chao","gao","gen">> >> >>,
    \* 平跟(小于1cm): 0cm, 0.5cm, 1cm以下, 平跟
    << <<"ping","gen","(","xiao","yu","1","c","m",")">>,
       << <<"0","c","m">>, <<"0",".","5","c","m">>, <<"1","c","m","yi3","xia4">>,
          <<"ping","gen">> >> >>
>>

\* the keys of ATTRIBUTE_MATCHING["value_mapping"]: 材质, 闭合方式, 后跟高
value_mapping_keys ==
    { <<"cai","zhi">>, <<"bi","he","fang","shi4">>, <<"hou","gen","gao">> }

\* ATTRIBUTE_MATCHING["value_mapping"][attribute_type]
value_mapping(attribute_type) ==
    CASE attribute_type = <<"cai","zhi">> -> value_map_material
      [] attribute_type = <<"bi","he","fang","shi4">> -> value_map_closure
      [] attribute_type = <<"hou","gen","gao">> -> value_map_heel

(***************************************************************************)
(* utils.py: pure helpers                                                 *)
(***************************************************************************)
ChunJi == <<"chun","ji">>   \* 春季

XiaJi == <<"xia","ji">>     \* 夏季

QiuJi == <<"qiu","ji">>     \* 秋季

DongJi == <<"dong","ji">>   \* 冬季

\* get_current_season(), for the month the clock shows
get_current_season(month) ==
    IF 3 <= month /\ month <= 5 THEN ChunJi
    ELSE IF 6 <= month /\ month <= 8 THEN XiaJi
    ELSE IF 9 <= month /\ month <= 11 THEN QiuJi
    ELSE DongJi

\* season_map with the last entry mapping 冬季 to itself
season_map_get_stuck(current_season) ==
    CASE current_season = ChunJi -> XiaJi
      [] current_season = XiaJi -> QiuJi
      [] current_season = QiuJi -> DongJi
      [] OTHER -> DongJi

\* season_map.get(current_season, "春季") of get_next_season
season_map_get(current_season) ==
    CASE current_season = ChunJi -> XiaJi
      [] current_season = XiaJi -> QiuJi
      [] current_season = QiuJi -> DongJi
      [] current_season = DongJi -> ChunJi
      [] OTHER -> ChunJi

\* get_next_season returning the season of the month itself
get_next_season_current(month) == get_current_season(month)

\* get_next_season(), for the month the clock shows
get_next_season(month) == season_map_get(get_current_season(month))

\* s.split(sep)[0], for a one-character separator
RECURSIVE SplitFirst(_, _)
SplitFirst(s, sep) ==
    IF s = <<>> \/ Head(s) = sep THEN <<>>
    ELSE <<Head(s)>> \o SplitFirst(Tail(s), sep)

\* the separators of extract_primary_material, in list order: + ， , 、 /
material_separators == <<"+", "fwcomma", ",", "dunhao", "/">>

\* extract_primary_material(material_str)
extract_primary_material(material_str) ==
    IF ~Truthy(material_str) THEN EmptyStr
    ELSE LET hit(sep) == IsSubstr(<<sep>>, material_str)
             i == FirstIndex([ix \in 1..Len(material_separators) |-> hit(material_separators[ix])])
         IN  IF i # 0 THEN Strip(SplitFirst(material_str, material_separators[i]))
             ELSE Strip(material_str)

\* s.replace(pat, ""), pat non-empty: leftmost non-overlapping occurrences
RECURSIVE Remove(_, _)
Remove(s, pat) ==
    IF Len(s) < Len(pat) THEN s
    ELSE IF SubSeq(s, 1, Len(pat)) = pat
         THEN Remove(SubSeq(s, Len(pat) + 1, Len(s)), pat)
         ELSE <<Head(s)>> \o Remove(Tail(s), pat)

\* the punctuation clean_attribute_value removes: 。！？；：、（）()"'
clean_chars == <<"fwperiod", "fwbang", "fwquestion", "fwsemicolon", "fwcolon",
                 "dunhao", "fwlparen", "fwrparen", "(", ")", "dquote", "squote">>

RECURSIVE RemoveAll(_, _, _)
RemoveAll(s, chars, i) ==
    IF i > Len(chars) THEN s ELSE RemoveAll(Remove(s, <<chars[i]>>), chars, i + 1)

\* clean_attribute_value without the strip of line 210
clean_attribute_value_unstripped(value) ==
    IF ~Truthy(value) THEN EmptyStr
    ELSE LET v1 == Strip(Remove(value, <<"cai","zhi","fwcolon">>))
             v2 == Strip(Remove(Remove(v1, <<"zhu","yao","cheng","fen1","fwcolon">>),
                                <<"lei","xing","fwcolon">>))
         IN  RemoveAll(v2, clean_chars, 1)

\* clean_attribute_value(value)
clean_attribute_value(value) ==
    IF ~Truthy(value) THEN EmptyStr
    ELSE LET v1 == Strip(Remove(value, <<"cai","zhi","fwcolon">>))          \* 材质：
             v2 == Strip(Remove(Remove(v1, <<"zhu","yao","cheng","fen1","fwcolon">>), \* 主要成分：
                                <<"lei","xing","fwcolon">>))                \* 类型：
         IN  Strip(RemoveAll(v2, clean_chars, 1))

(***************************************************************************)
(* utils.py: find_best_value_match                                        *)
(***************************************************************************)
\* table_lookup without the partial match of lines 108-110
table_lookup_exact_only(query_value, available_values_, value_map) ==
    LET hit(entry) ==
            InList(query_value, entry[2]) /\ InList(entry[1], available_values_)
        i == FirstIndex([ix \in 1..Len(value_map) |-> hit(value_map[ix])])
    IN  IF i = 0 THEN NoneVal ELSE value_map[i][1]

\* lines 104-110: the first standard value, in declared order, that a trigger
\* selects and that is among the available values; NoneVal when there is none
table_lookup(query_value, available_values_, value_map) ==
    LET hit(entry) ==
            \/ InList(query_value, entry[2]) /\ InList(entry[1], available_values_)
            \/ \E k \in 1..Len(entry[2]) :
                   IsSubstr(entry[2][k], query_value) /\ InList(entry[1], available_values_)
        i == FirstIndex([ix \in 1..Len(value_map) |-> hit(value_map[ix])])
    IN  IF i = 0 THEN NoneVal ELSE value_map[i][1]

\* what one call of find_best_value_match did: value is the returned string,
\* table: the value map was consulted, llm: call_llm was invoked, embed: the
\* embedding model was invoked
MatchResult(value, table, llm, embed) ==
    [value |-> value, table |-> table, llm |-> llm, embed |-> embed]

\* find_best_value_match without the membership check of lines 135-139
find_best_value_match_unchecked(query_value, available_values_, attribute_type, llm_answer, argmax) ==
    IF available_values_ = <<>> THEN MatchResult(EmptyStr, FALSE, FALSE, FALSE)
    ELSE IF Len(available_values_) = 1
    THEN MatchResult(available_values_[1], FALSE, FALSE, FALSE)
    ELSE LET multi == IsSubstr(<<",">>, llm_answer)
         IN  MatchResult(IF multi THEN available_values_[argmax] ELSE llm_answer,
                         FALSE, TRUE, multi)

\* find_best_value_match without the one-element shortcut of lines 98-99
find_best_value_match_no_single(query_value, available_values_, attribute_type, llm_answer, argmax) ==
    IF available_values_ = <<>> THEN MatchResult(EmptyStr, FALSE, FALSE, FALSE)
    ELSE LET multi == IsSubstr(<<",">>, llm_answer)
             matched_value == IF multi THEN available_values_[argmax] ELSE llm_answer
         IN  MatchResult(IF InList(matched_value, available_values_)
                         THEN matched_value ELSE EmptyStr,
                         FALSE, TRUE, multi)

\* find_best_value_match(query_value, available_values, attribute_type), given the
\* answer call_llm would give and the index the embedding argmax would give
find_best_value_match(query_value, available_values_, attribute_type, llm_answer, argmax) ==
    IF available_values_ = <<>> THEN MatchResult(EmptyStr, FALSE, FALSE, FALSE)
    ELSE IF Len(available_values_) = 1
    THEN MatchResult(available_values_[1], FALSE, FALSE, FALSE)
    ELSE LET use_table == Truthy(attribute_type) /\ attribute_type \in value_mapping_keys
             mapped == IF use_table
                       THEN table_lookup(query_value, available_values_,
                                         value_mapping(attribute_type))
                       ELSE NoneVal
         IN  IF mapped # NoneVal THEN MatchResult(mapped, TRUE, FALSE, FALSE)
             ELSE LET multi == IsSubstr(<<",">>, llm_answer)
                      matched_value == IF multi THEN available_values_[argmax]
                                       ELSE llm_answer
                  IN  MatchResult(IF InList(matched_value, available_values_)
                                  THEN matched_value ELSE EmptyStr,
                                  use_table, TRUE, multi)

(***************************************************************************)
(* database.py: ProductDatabase.get_product_data                          *)
(***************************************************************************)
EmptyDict == <<>>

\* result[key] = value
DictPut(d, key, value) ==
    [k \in (DOMAIN d) \cup {key} |-> IF k = key THEN value ELSE d[k]]

\* str.lower(), on the tokens that have a case
LowerChar(c) == CASE c = "P" -> "p" [] c = "U" -> "u" [] OTHER -> c

Lower(s) == [i \in 1..Len(s) |-> LowerChar(s[i])]

\* the columns of intrinsic_attributes_productmaterial the code names, in row order
material_columns == << <<"upper">>, <<"lining">>, <<"outsole">>, <<"insole">> >>

\* the columns of intrinsic_attributes_productsize the code names, in row order
size_columns == << <<"heel_height">>, <<"boot_shaft_height">>, <<"platform_height">> >>

\* field_mapping of query_material_data: 鞋面材质, 内里材质, 鞋底材质, 鞋垫材质
material_field_mapping ==
    ( <<"xie","mian","cai","zhi">> :> <<"upper">> ) @@
    ( <<"nei","li","cai","zhi">> :> <<"lining">> ) @@
    ( <<"xie","di","cai","zhi">> :> <<"outsole">> ) @@
    ( <<"xie","dian","cai","zhi">> :> <<"insole">> )

\* field_mapping of query_size_data: 后跟高, 靴筒高度, 鞋跟高度, 鞋底厚度
size_field_mapping ==
    ( <<"hou","gen","gao">> :> <<"heel_height">> ) @@
    ( <<"xue","tong","gao","du">> :> <<"boot_shaft_height">> ) @@
    ( <<"xie","gen","gao","du">> :> <<"heel_height">> ) @@
    ( <<"xie","di","hou4thick","du">> :> <<"platform_height">> )

\* lines 186-200, for one requested attribute: row_columns lists the row's
\* columns in order, row_data maps each of them to its value
process_attribute(attr, row_columns, row_data, result, field_mapping) ==
    LET r1 == IF attr \in DOMAIN row_data THEN DictPut(result, attr, row_data[attr])
              ELSE result
        r2 == IF attr \in DOMAIN field_mapping /\ field_mapping[attr] \in DOMAIN row_data
              THEN DictPut(r1, attr, row_data[field_mapping[attr]])
              ELSE r1
        fuzzy(field) == \/ IsSubstr(Lower(attr), Lower(field))
                        \/ IsSubstr(Lower(field), Lower(attr))
        k == FirstIndex([ix \in 1..Len(row_columns) |-> fuzzy(row_columns[ix])])
    IN  IF attr \notin DOMAIN r2 /\ k # 0
        THEN DictPut(r2, attr, row_data[row_columns[k]])
        ELSE r2

\* process_attributes(attributes, row_data, result, field_mapping), from the
\* i-th requested attribute on
RECURSIVE process_attributes(_, _, _, _, _, _)
process_attributes(attributes, row_columns, row_data, result, field_mapping, i) ==
    IF i > Len(attributes) THEN result
    ELSE process_attributes(attributes, row_columns, row_data,
             process_attribute(attributes[i], row_columns, row_data, result,
                               field_mapping),
             field_mapping, i + 1)

\* query_material_data(product_id, attributes, result): a row that is missing
\* (or whose query fails) is the empty row and leaves result as it is
query_material_data(attributes, material_row, result) ==
    IF DOMAIN material_row # {}
    THEN process_attributes(attributes, material_columns, material_row, result,
                            material_field_mapping, 1)
    ELSE result

\* query_size_data(original_product_number, attributes, result)
query_size_data(attributes, size_row, result) ==
    IF DOMAIN size_row # {}
    THEN process_attributes(attributes, size_columns, size_row, result,
                            size_field_mapping, 1)
    ELSE result

(***************************************************************************)
(* The environment: requests, clock, database contents, model answers     *)
(***************************************************************************)
JiJie == <<"ji","jie">>                                      \* 季节

ShangShiNianFen == <<"shang","shi4city","nian","fen">>       \* 上市年份

BiHeFangShi == <<"bi","he","fang","shi4">>                   \* 闭合方式

HouGenGao == <<"hou","gen","gao">>                           \* 后跟高

PinPai == <<"pin","pai">>                                    \* 品牌

\* the attribute names a request may carry
AttrNames == {
    JiJie,
    <<" ","ji","jie"," ">>,                                  \* " 季节 "
    <<"shi4fit","yong","ji","jie">>,                         \* 适用季节
    ShangShiNianFen \o JiJie,                                \* 上市年份季节
    <<"xie","mian","cai","zhi">>,                            \* 鞋面材质
    <<"bang","mian","cai","zhi">>,                           \* 帮面材质
    <<"xie","di","cai","zhi">>,                              \* 鞋底材质
    <<"cai","zhi">>,                                         \* 材质
    HouGenGao,
    <<"gen","gao">>,                                         \* 跟高
    <<"xue","tong","gao","du">>,                             \* 靴筒高度
    <<"tai","gao">>,                                         \* 台高
    BiHeFangShi,
    <<"xie","tou","kuan","shi4">>,                           \* 鞋头款式
    <<"xie","gen","kuan","shi4">>,                           \* 鞋跟款式
    <<"kai","kou3","shen","du">>,                            \* 开口深度
    <<"feng","ge">>,                                         \* 风格
    <<"kuan","shi4">>,                                       \* 款式
    <<"insole">>,                                            \* a column name
    PinPai }

FirstYear == 2025

LastYear == 2026

Years == FirstYear..LastYear

Months == 1..12

\* the candidate lists a request may carry
CandidateLists == {
    <<>>,
    << <<"zhen","pi">> >>,                                   \* [真皮]
    << ChunJi, XiaJi, QiuJi, DongJi, <<"si","ji">> >>,       \* [春季,夏季,秋季,冬季,四季]
    << IntToStr(LastYear) \o ChunJi, IntToStr(LastYear) \o XiaJi,
       IntToStr(LastYear) \o <<"nian">> \o QiuJi,
       IntToStr(LastYear) \o DongJi >>,                      \* [2026春季, ...]
    << <<"xi","dai">>, <<"tao","jiao">>, <<"la","lian">> >>, \* [系带,套脚,拉链]
    << <<"zhen","pi">>, <<"ren","zao","ge2">> >> }           \* [真皮,人造革]

\* no image_path argument
NoPath == [given |-> FALSE, exists |-> FALSE, ext |-> ""]

\* the image_path arguments: None, or a path that exists or not, with an extension
ImagePaths ==
    {NoPath} \cup [given : {TRUE}, exists : BOOLEAN, ext : {".png", ".JPG", ".gif"}]

\* IMAGE_CONFIG["formats"]
image_formats == {".jpg", ".jpeg", ".png", ".webp"}

\* ext.lower()
LowerExt(ext) == IF ext = ".JPG" THEN ".jpg" ELSE ext

\* what a column of a fetched row may hold besides None and ""
ColumnValue(col) ==
    CASE col = <<"upper">> -> <<"niu","pi","ge2","+","zhi1","wu">>   \* 牛皮革+织物
      [] col = <<"lining">> -> <<"zhu","pi">>                        \* 猪皮
      [] col = <<"outsole">> -> <<"xiang","jiao">>                   \* 橡胶
      [] col = <<"insole">> -> <<"cai","zhi","fwcolon","zhi1","wu">> \* 材质：织物
      [] col = <<"heel_height">> -> <<"8","c","m">>
      [] col = <<"boot_shaft_height">> -> <<"2","0","c","m">>
      [] col = <<"platform_height">> -> <<"(","3","c","m",")">>

Range(seq) == {seq[i] : i \in 1..Len(seq)}

\* the rows a table may hold for the product: none, or every column None, "" or a value
Rows(columns) ==
    {<<>>} \cup
    { [c \in Range(columns) |->
          IF m[c] = 0 THEN NoneVal ELSE IF m[c] = 1 THEN EmptyStr ELSE ColumnValue(c)]
      : m \in [Range(columns) -> 0..2] }

\* what self.db.get_product_data may return for the requested attributes: the
\* empty dict (no connection, no such product, a failed query), or what the
\* product's material row and size row give
ProductData(attributes) ==
    {EmptyDict} \cup
    { query_size_data(attributes, size_row, r)
      : r \in { query_material_data(attributes, material_row, EmptyDict)
                : material_row \in Rows(material_columns) },
        size_row \in Rows(size_columns) }

QiTa == <<"qi","ta">>                                        \* 其他

\* what call_llm may answer when asked to pick among options: nothing (a failed
\* call), an option, a text that is no option, or several options joined by commas
LLMAnswers(options) ==
    {EmptyStr, QiTa} \cup Range(options) \cup
    (IF Len(options) >= 2 THEN {options[1] \o <<",">> \o options[2]} ELSE {})

\* what call_llm may answer when asked for a standard attribute name
LLMNameAnswers ==
    {EmptyStr, QiTa, <<"feng","ge">>, HouGenGao, <<"xie","mian","cai","zhi">>}

\* what analyze_image_with_openai may answer: nothing (a failed call) or a description
ImageAnswers ==
    {EmptyStr, <<"yi","jiao","deng">>, <<"gao","gen">>, <<"zhen","pi">>}

\* the indexes the embedding argmax may give
ArgmaxChoices(options) == IF options = <<>> THEN {1} ELSE 1..Len(options)

(***************************************************************************)
(* attribute_selector.py: classification                                  *)
(***************************************************************************)
\* alias_lookup that looks the name up in the alias lists only
alias_lookup_aliases_only(name) ==
    LET hit(entry) == InList(name, entry[2])
        i == FirstIndex([ix \in 1..Len(aliases) |-> hit(aliases[ix])])
    IN  IF i = 0 THEN NoneVal ELSE aliases[i][1]

\* lines 132-135: the first standard name, in declared order, that the name
\* equals or whose alias list holds it; NoneVal when there is none
alias_lookup(name) ==
    LET hit(entry) == name = entry[1] \/ InList(name, entry[2])
        i == FirstIndex([ix \in 1..Len(aliases) |-> hit(aliases[ix])])
    IN  IF i = 0 THEN NoneVal ELSE aliases[i][1]

\* find_standard_attribute that returns the model's answer without checking it
find_standard_attribute_trusting(name, llm_answer) ==
    LET hit(entry) == name = entry[1] \/ InList(name, entry[2])
        i == FirstIndex([ix \in 1..Len(aliases) |-> hit(aliases[ix])])
    IN  IF i # 0 THEN [value |-> aliases[i][1], llm |-> FALSE]
        ELSE [value |-> llm_answer, llm |-> TRUE]

\* find_standard_attribute(attribute_name), given the answer call_llm would give.
\* value: the returned name; llm: call_llm was invoked
find_standard_attribute(name, llm_answer) ==
    LET direct == alias_lookup(name)
    IN  IF direct # NoneVal THEN [value |-> direct, llm |-> FALSE]
        ELSE IF InList(llm_answer, standard_attrs)
        THEN [value |-> llm_answer, llm |-> TRUE]
        ELSE [value |-> name, llm |-> TRUE]

\* 季节, 适用季节, 上市年份季节
is_season_attribute(name) ==
    AnyKeywordIn(<< JiJie, <<"shi4fit","yong","ji","jie">>,
                    ShangShiNianFen \o JiJie >>, name)

\* 材质, 面料, 帮面, 鞋垫材质, 鞋底材质
is_material_attribute(name) ==
    AnyKeywordIn(<< <<"cai","zhi">>, <<"mian","liao">>, <<"bang","mian">>,
                    <<"xie","dian","cai","zhi">>, <<"xie","di","cai","zhi">> >>, name)

\* 高度, 厚度, 后跟高, 靴筒高, 鞋跟高, 鞋帮高度
is_size_attribute(name) ==
    AnyKeywordIn(<< <<"gao","du">>, <<"hou4thick","du">>, HouGenGao,
                    <<"xue","tong","gao">>, <<"xie","gen","gao">>,
                    <<"xie","bang","gao","du">> >>, name)

\* 闭合方式, 鞋扣
is_closure_attribute(name) ==
    AnyKeywordIn(<< BiHeFangShi, <<"xie","kou4">> >>, name)

\* 鞋头, 鞋尖
is_toe_style_attribute(name) ==
    AnyKeywordIn(<< <<"xie","tou">>, <<"xie","jian">> >>, name)

\* 鞋跟
is_heel_shape_attribute(name) == AnyKeywordIn(<< <<"xie","gen">> >>, name)

\* 开口深度, 开口大小
is_opening_depth_attribute(name) ==
    AnyKeywordIn(<< <<"kai","kou3","shen","du">>, <<"kai","kou3","da","xiao">> >>, name)

\* 风格, 鞋子风格
is_style_attribute(name) ==
    AnyKeywordIn(<< <<"feng","ge">>, <<"xie","zi","feng","ge">> >>, name)

\* 款式, 鞋子款式
is_shoe_shape_attribute(name) ==
    AnyKeywordIn(<< <<"kuan","shi4">>, <<"xie","zi","kuan","shi4">> >>, name)

\* the if/elif chain with every test made on the trimmed name
Category_on_raw_name(name, standard) ==
    IF is_season_attribute(name) THEN "season"
    ELSE IF is_material_attribute(name) THEN "material"
    ELSE IF is_size_attribute(name) THEN "size"
    ELSE IF is_closure_attribute(name) THEN "closure"
    ELSE IF is_toe_style_attribute(name) THEN "toe_style"
    ELSE IF is_heel_shape_attribute(name) THEN "heel_shape"
    ELSE IF is_opening_depth_attribute(name) THEN "opening_depth"
    ELSE IF is_style_attribute(name) THEN "style"
    ELSE IF is_shoe_shape_attribute(name) THEN "shoe_shape"
    ELSE "general"

\* the if/elif chain of select_attribute_value, lines 74-112: the resolver that
\* runs for the trimmed name and the standard name
Category(name, standard) ==
    IF is_season_attribute(name) THEN "season"
    ELSE IF is_material_attribute(standard) THEN "material"
    ELSE IF is_size_attribute(standard) THEN "size"
    ELSE IF is_closure_attribute(standard) THEN "closure"
    ELSE IF is_toe_style_attribute(standard) THEN "toe_style"
    ELSE IF is_heel_shape_attribute(standard) THEN "heel_shape"
    ELSE IF is_opening_depth_attribute(standard) THEN "opening_depth"
    ELSE IF is_style_attribute(standard) THEN "style"
    ELSE IF is_shoe_shape_attribute(standard) THEN "shoe_shape"
    ELSE "general"

(***************************************************************************)
(* Calls of the external capabilities and of the value matcher            *)
(***************************************************************************)
\* one call of a capability. cap: "llm", "db", "image" or "embed"; what: the prompt
\* template followed by the text put into it, the analysis type, or the query;
\* answer: what the capability answered ("" for db and embed); fields: the field
\* names a db call asked for
Call(cap, what, answer) ==
    [cap |-> cap, what |-> what, answer |-> answer, fields |-> <<>>]

\* a call of get_product_data for fields, which returned the dict data
DbCall(fields, data) ==
    [cap |-> "db", what |-> <<"get_product_data">>, answer |-> data,
     fields |-> fields]

\* what a resolver did: the value it returned, the capability calls and matcher
\* calls it made, and whether it raised
Outcome(value, calls_, matches_, raised) ==
    [value |-> value, calls |-> calls_, matches |-> matches_, raised |-> raised]

\* a resolver that returns value without calling anything
Plain(value) == {Outcome(value, <<>>, <<>>, FALSE)}

\* the outcomes of one call find_best_value_match(query, options, attribute_type)
Match(query, options, attribute_type) ==
    { Outcome(r.value,
              (IF r.llm THEN <<Call("llm", <<"match">> \o query, r.answer)>> ELSE <<>>) \o
              (IF r.embed THEN <<Call("embed", query, EmptyStr)>> ELSE <<>>),
              << [query |-> query, options |-> options,
                  attribute_type |-> attribute_type, value |-> r.value,
                  table |-> r.table, llm |-> r.llm, embed |-> r.embed,
                  answer |-> r.answer] >>,
              FALSE)
      : r \in { [value |-> fa[1].value, table |-> fa[1].table, llm |-> fa[1].llm,
                 embed |-> fa[1].embed,
                 answer |-> IF fa[1].llm THEN fa[2] ELSE EmptyStr]
                : fa \in
                  { <<find_best_value_match(query, options, attribute_type, a, k), a>>
                    : a \in LLMAnswers(options), k \in ArgmaxChoices(options) } } }

\* the values a step can return
Values(outcomes) == { o.value : o \in outcomes }

\* outcome o of a first step, followed by the outcomes then[o.value] of a second
Chain(first, then) ==
    UNION { { Outcome(n.value, o.calls \o n.calls, o.matches \o n.matches, n.raised)
              : n \in then[o.value] }
            : o \in first }

\* analyze_image(image_path, analysis_type): empty without a call when the path is
\* missing, does not exist or has an unsupported extension
analyze_image(path, analysis_type) ==
    IF ~path.given \/ ~path.exists THEN Plain(EmptyStr)
    ELSE IF LowerExt(path.ext) \notin image_formats THEN Plain(EmptyStr)
    ELSE { Outcome(a, <<Call("image", <<analysis_type>>, a)>>, <<>>, FALSE)
           : a \in ImageAnswers }

(***************************************************************************)
(* attribute_selector.py: the resolvers, each as its set of outcomes      *)
(***************************************************************************)
\* the first value of options at which flags is TRUE, or NoneVal
FirstValue(options, flags) ==
    LET i == FirstIndex(flags) IN IF i = 0 THEN NoneVal ELSE options[i]

\* process_season_attribute whose release-year branch looks for the next season
process_season_attribute_next_in_year(name, options, year, month) ==
    IF IsSubstr(ShangShiNianFen, name)
    THEN LET current_year == IntToStr(year)
             next_season == get_next_season(month)
             both(value) == IsSubstr(current_year, value) /\ IsSubstr(next_season, value)
             found == FirstValue(options, [ix \in 1..Len(options) |-> both(options[ix])])
         IN  IF found # NoneVal THEN Plain(found)
             ELSE { Outcome(a, <<Call("llm", <<"season">> \o current_year \o next_season,
                                      a)>>, <<>>, FALSE)
                    : a \in LLMAnswers(options) }
    ELSE LET next_season == get_next_season(month)
             has(value) == IsSubstr(next_season, value)
             found == FirstValue(options, [ix \in 1..Len(options) |-> has(options[ix])])
         IN  IF found # NoneVal THEN Plain(found)
             ELSE Match(next_season, options, NoneVal)

\* process_season_attribute(attribute_name, available_values) with the clock at
\* year, month
process_season_attribute(name, options, year, month) ==
    IF IsSubstr(ShangShiNianFen, name)
    THEN LET current_year == IntToStr(year)
             current_season == get_current_season(month)
             both(value) == IsSubstr(current_year, value) /\ IsSubstr(current_season, value)
             found == FirstValue(options, [ix \in 1..Len(options) |-> both(options[ix])])
         IN  IF found # NoneVal THEN Plain(found)
             ELSE { Outcome(a, <<Call("llm", <<"season">> \o current_year \o current_season,
                                      a)>>, <<>>, FALSE)
                    : a \in LLMAnswers(options) }
    ELSE LET next_season == get_next_season(month)
             has(value) == IsSubstr(next_season, value)
             found == FirstValue(options, [ix \in 1..Len(options) |-> has(options[ix])])
         IN  IF found # NoneVal THEN Plain(found)
             ELSE Match(next_season, options, NoneVal)

\* self.db.get_product_data(product_number, attributes), as a first step
Fetch(attributes) ==
    { Outcome(pd, <<DbCall(attributes, pd)>>, <<>>, FALSE)
      : pd \in ProductData(attributes) }

\* lines 230-244: the field of product_data the material resolver reads
material_field(name, product_data) ==
    LET order == << name, <<"xie","mian","cai","zhi">>, <<"xie","dian","cai","zhi">>,
                    <<"xie","di","cai","zhi">>, <<"bang","mian","cai","zhi">>,
                    <<"nei","li","cai","zhi">>, <<"cai","zhi">> >>
        present(field) == field \in DOMAIN product_data
        i == FirstIndex([ix \in 1..Len(order) |-> present(order[ix])])
    IN  IF i = 0 THEN EmptyStr ELSE product_data[order[i]]

\* process_material_attribute that passes the hint 材质 to the matcher
process_material_attribute_hinted(name, options) ==
    LET rest(product_data) ==
            LET material == material_field(name, product_data)
            IN  IF Truthy(material)
                THEN Match(extract_primary_material(material), options, <<"cai","zhi">>)
                ELSE Plain(EmptyStr)
        fetched == Fetch(<< <<"cai","zhi">>, <<"xie","mian","cai","zhi">>,
                            <<"bang","mian","cai","zhi">>, name >>)
    IN  Chain(fetched, [d \in Values(fetched) |-> rest(d)])

\* process_material_attribute(product_number, attribute_name, available_values)
process_material_attribute(name, options) ==
    LET rest(product_data) ==
            LET material == material_field(name, product_data)
            IN  IF Truthy(material)
                THEN Match(extract_primary_material(material), options, NoneVal)
                ELSE Plain(EmptyStr)
        fetched == Fetch(<< <<"cai","zhi">>, <<"xie","mian","cai","zhi">>,
                            <<"bang","mian","cai","zhi">>, name >>)
    IN  Chain(fetched, [d \in Values(fetched) |-> rest(d)])

\* lines 262-282: the value the size resolver takes from product_data
size_field(name, product_data) ==
    LET first_of(fields) ==
            LET present(field) == field \in DOMAIN product_data
                i == FirstIndex([ix \in 1..Len(fields) |-> present(fields[ix])])
            IN  IF i = 0 THEN EmptyStr ELSE product_data[fields[i]]
    IN  IF name \in DOMAIN product_data THEN product_data[name]
        ELSE IF IsSubstr(HouGenGao, name) \/ IsSubstr(<<"xie","gen","gao">>, name)
        THEN first_of(<< HouGenGao, <<"xie","gen","gao","du">>, <<"heel_height">> >>)
        ELSE IF IsSubstr(<<"xue","tong","gao">>, name)
        THEN first_of(<< <<"xue","tong","gao","du">>, <<"tube_height">> >>)
        ELSE IF IsSubstr(<<"di","hou4thick">>, name) \/ IsSubstr(<<"tai","gao">>, name)
        THEN first_of(<< <<"xie","di","hou4thick","du">>, <<"platform_height">> >>)
        ELSE EmptyStr

\* lines 289-295: the recognition type the size resolver derives from the name
recognition_type(name) ==
    IF IsSubstr(HouGenGao, name) \/ IsSubstr(<<"xie","gen","gao">>, name)
    THEN "heel_height"
    ELSE IF IsSubstr(<<"xue","tong","gao">>, name) THEN "tube_height"
    ELSE IF IsSubstr(<<"di","hou4thick">>, name) \/ IsSubstr(<<"tai","gao">>, name)
    THEN "platform_height"
    ELSE ""

\* the analysis type that follows the recognition type of the sub-category
size_analysis_type_of_subcategory(name) == recognition_type(name)

\* line 298: the analysis type the size resolver asks analyze_image for
size_analysis_type(name) == "heel_height"

\* process_size_attribute(product_number, attribute_name, available_values, image_path)
process_size_attribute(name, options, path) ==
    LET finish(size_value) ==
            IF Truthy(size_value)
            THEN Match(clean_attribute_value(size_value), options, NoneVal)
            ELSE Plain(EmptyStr)
        rest(product_data) ==
            LET size_value == size_field(name, product_data)
            IN  IF size_value = NoneVal /\ recognition_type(name) # ""
                THEN LET analyzed == analyze_image(path, size_analysis_type(name))
                     IN  Chain(analyzed, [a \in Values(analyzed) |-> finish(a)])
                ELSE finish(size_value)
        fetched == Fetch(<< name, HouGenGao, <<"xue","tong","gao","du">>,
                            <<"xie","gen","gao","du">>, <<"heel_height">>,
                            <<"tube_height">>, <<"platform_height">> >>)
    IN  Chain(fetched, [d \in Values(fetched) |-> rest(d)])

\* lines 312, 326, 340, 354: logger.warning exists, the resolver returns ""
missing_image_warning == Plain(EmptyStr)

\* lines 369, 381: logger.waring does not exist, the call raises AttributeError
missing_image_waring == {Outcome(EmptyStr, <<>>, <<>>, TRUE)}

\* the body shared by the six image resolvers: on_missing is what the branch for
\* a missing image does
process_image_attribute(path, options, analysis_type, attribute_type, on_missing) ==
    IF ~path.given \/ ~path.exists THEN on_missing
    ELSE LET rest(answer) ==
                 IF Truthy(answer) THEN Match(answer, options, attribute_type)
                 ELSE Plain(EmptyStr)
             analyzed == analyze_image(path, analysis_type)
         IN  Chain(analyzed, [a \in Values(analyzed) |-> rest(a)])

process_closure_attribute(path, options) ==
    process_image_attribute(path, options, "closure_type", BiHeFangShi,
                            missing_image_warning)

process_toe_style_attribute(path, options) ==
    process_image_attribute(path, options, "shoe_toe_style", NoneVal,
                            missing_image_warning)

process_heel_shape_attribute(path, options) ==
    process_image_attribute(path, options, "heel_shape", NoneVal,
                            missing_image_warning)

process_opening_depth_attribute(path, options) ==
    process_image_attribute(path, options, "opening_depth", NoneVal,
                            missing_image_warning)

process_style_attribute(path, options) ==
    process_image_attribute(path, options, "style", NoneVal, missing_image_waring)

process_shoe_shape_attribute(path, options) ==
    process_image_attribute(path, options, "shoe_shape", NoneVal,
                            missing_image_waring)

\* process_general_attribute(product_number, attribute_name, available_values)
process_general_attribute(name, options) ==
    LET rest(product_data) ==
            IF name \in DOMAIN product_data
            THEN Match(clean_attribute_value(product_data[name]), options, NoneVal)
            ELSE Plain(EmptyStr)
        fetched == Fetch(<<name>>)
    IN  Chain(fetched, [d \in Values(fetched) |-> rest(d)])

\* the check of lines 53-61 without the format test
checked_image_path_any_format(path) ==
    IF path.given
    THEN IF ~path.exists THEN NoPath ELSE path
    ELSE path

\* lines 53-61: the image path after the existence and format check
checked_image_path(path) ==
    IF path.given
    THEN IF ~path.exists THEN NoPath
         ELSE IF LowerExt(path.ext) \notin image_formats THEN NoPath
         ELSE path
    ELSE path

\* the fallback that matches again whatever the resolver returned
fallback_always(value, options, standard) ==
    IF options # <<>>
    THEN Match(EmptyStr, options,
               IF standard \in value_mapping_keys THEN standard ELSE NoneVal)
    ELSE Plain(value)

\* the fallback that defaults to the first candidate instead of matching
fallback_first_candidate(value, options, standard) ==
    IF ~Truthy(value) /\ options # <<>> THEN {Outcome(options[1], <<>>, <<>>, FALSE)}
    ELSE {Outcome(value, <<>>, <<>>, FALSE)}

\* lines 115-123: the fallback of select_attribute_value on the resolver's value
fallback(value, options, standard) ==
    IF ~Truthy(value) /\ options # <<>>
    THEN Match(EmptyStr, options,
               IF standard \in value_mapping_keys THEN standard ELSE NoneVal)
    ELSE Plain(value)

(***************************************************************************)
(* select_attribute_value as a state machine                              *)
(***************************************************************************)
ProductNumbers == { <<"P","1","2","3">> }

Requests ==
    [product_number : ProductNumbers, attribute_name : AttrNames,
     available_values : CandidateLists, image_path : ImagePaths]

Init ==
    /\ pc = "idle"
    /\ request = [product_number |-> EmptyStr, attribute_name |-> EmptyStr,
                  available_values |-> <<>>, image_path |-> NoPath]
    /\ attribute_name = EmptyStr
    /\ image_path = NoPath
    /\ standard_attribute = EmptyStr
    /\ category = "none"
    /\ resolved = EmptyStr
    /\ selected_value = EmptyStr
    /\ calls = <<>>
    /\ matches = <<>>
    /\ now = [year |-> 0, month |-> 0]

\* lines 49-64: the call arrives, the image path is checked, the name is stripped
Enter ==
    /\ pc = "idle"
    /\ \E r \in Requests :
           /\ request' = r
           /\ image_path' = checked_image_path(r.image_path)
           /\ attribute_name' = Strip(r.attribute_name)
    /\ pc' = "canon"
    /\ UNCHANGED <<standard_attribute, category, resolved, selected_value, calls,
                   matches, now>>

\* line 67: standard_attribute = self.find_standard_attribute(attribute_name)
Canonicalize ==
    /\ pc = "canon"
    /\ \E a \in LLMNameAnswers :
           LET r == find_standard_attribute(attribute_name, a)
           IN  /\ standard_attribute' = r.value
               /\ calls' = IF r.llm
                           THEN Append(calls, Call("llm", <<"standard">> \o attribute_name, a))
                           ELSE calls
    /\ pc' = "resolve"
    /\ UNCHANGED <<request, attribute_name, image_path, category, resolved,
                   selected_value, matches, now>>

\* the resolver of category cat ran with outcome o
Resolved(cat, o) ==
    /\ category' = cat
    /\ resolved' = o.value
    /\ calls' = calls \o o.calls
    /\ matches' = matches \o o.matches
    /\ pc' = IF o.raised THEN "raised" ELSE "fallback"
    /\ UNCHANGED <<request, attribute_name, image_path, standard_attribute,
                   selected_value>>

\* lines 74-75
ProcessSeason ==
    /\ pc = "resolve"
    /\ Category(attribute_name, standard_attribute) = "season"
    /\ \E year \in Years, month \in Months :
           /\ now' = [year |-> year, month |-> month]
           /\ \E o \in process_season_attribute(attribute_name,
                           request.available_values, year, month) :
                  Resolved("season", o)

\* lines 78-80
ProcessMaterial ==
    /\ pc = "resolve"
    /\ Category(attribute_name, standard_attribute) = "material"
    /\ \E o \in process_material_attribute(standard_attribute,
                                           request.available_values) :
           Resolved("material", o)
    /\ UNCHANGED now

\* lines 83-84
ProcessSize ==
    /\ pc = "resolve"
    /\ Category(attribute_name, standard_attribute) = "size"
    /\ \E o \in process_size_attribute(standard_attribute, request.available_values,
                                       image_path) :
           Resolved("size", o)
    /\ UNCHANGED now

\* lines 87-88
ProcessClosure ==
    /\ pc = "resolve"
    /\ Category(attribute_name, standard_attribute) = "closure"
    /\ \E o \in process_closure_attribute(image_path, request.available_values) :
           Resolved("closure", o)
    /\ UNCHANGED now

\* lines 91-92
ProcessToeStyle ==
    /\ pc = "resolve"
    /\ Category(attribute_name, standard_attribute) = "toe_style"
    /\ \E o \in process_toe_style_attribute(image_path, request.available_values) :
           Resolved("toe_style", o)
    /\ UNCHANGED now

\* lines 95-96
ProcessHeelShape ==
    /\ pc = "resolve"
    /\ Category(attribute_name, standard_attribute) = "heel_shape"
    /\ \E o \in process_heel_shape_attribute(image_path, request.available_values) :
           Resolved("heel_shape", o)
    /\ UNCHANGED now

\* lines 99-100
ProcessOpeningDepth ==
    /\ pc = "resolve"
    /\ Category(attribute_name, standard_attribute) = "opening_depth"
    /\ \E o \in process_opening_depth_attribute(image_path, request.available_values) :
           Resolved("opening_depth", o)
    /\ UNCHANGED now

\* lines 103-104
ProcessStyle ==
    /\ pc = "resolve"
    /\ Category(attribute_name, standard_attribute) = "style"
    /\ \E o \in process_style_attribute(image_path, request.available_values) :
           Resolved("style", o)
    /\ UNCHANGED now

\* lines 107-108
ProcessShoeShape ==
    /\ pc = "resolve"
    /\ Category(attribute_name, standard_attribute) = "shoe_shape"
    /\ \E o \in process_shoe_shape_attribute(image_path, request.available_values) :
           Resolved("shoe_shape", o)
    /\ UNCHANGED now

\* lines 111-112
ProcessGeneral ==
    /\ pc = "resolve"
    /\ Category(attribute_name, standard_attribute) = "general"
    /\ \E o \in process_general_attribute(standard_attribute,
                                          request.available_values) :
           Resolved("general", o)
    /\ UNCHANGED now

\* lines 114-127: the fallback match, then return [product_number, selected_value]
Return ==
    /\ pc = "fallback"
    /\ \E o \in fallback(resolved, request.available_values, standard_attribute) :
           /\ selected_value' = o.value
           /\ calls' = calls \o o.calls
           /\ matches' = matches \o o.matches
    /\ pc' = "done"
    /\ UNCHANGED <<request, attribute_name, image_path, standard_attribute,
                   category, resolved, now>>

Next ==
    \/ Enter
    \/ Canonicalize
    \/ ProcessSeason
    \/ ProcessMaterial
    \/ ProcessSize
    \/ ProcessClosure
    \/ ProcessToeStyle
    \/ ProcessHeelShape
    \/ ProcessOpeningDepth
    \/ ProcessStyle
    \/ ProcessShoeShape
    \/ ProcessGeneral
    \/ Return

Spec == Init /\ [][Next]_vars

(***************************************************************************)
(* find_best_value_match on its own: one call with any query, candidate   *)
(* list and attribute type of the sets below                              *)
(***************************************************************************)
\* the five labels of the 后跟高 value map, in declared order
HeelLabels == [i \in 1..Len(value_map_heel) |-> value_map_heel[i][1]]

MatchQueries == {
    EmptyStr,
    <<"zhen","niu","pi">>,                                   \* 真牛皮
    <<"tou","ceng","niu","pi","ge2">>,                       \* 头层牛皮革
    <<"chao","gao","gen">>,                                  \* 超高跟
    <<"8","c","m","yi3","shang">>,                           \* 8cm以上
    <<"yi","jiao","deng">>,                                  \* 一脚蹬
    XiaJi,
    QiTa }

MatchCandidateLists ==
    CandidateLists \cup
    { HeelLabels,
      << <<"ren","zao","ge2">>, <<"zhen","pi">>, <<"zhi1","wu">> >>, \* [人造革,真皮,织物]
      << <<"zhen","pi",",","niu","pi">>, <<"ren","zao","ge2">> >> }  \* ["真皮,牛皮",人造革]

MatchTypes == {NoneVal, PinPai} \cup value_mapping_keys

\* find_best_value_match(query, options, attribute_type) is called once
MatchCall ==
    /\ pc = "idle"
    /\ \E query \in MatchQueries, options \in MatchCandidateLists,
          attribute_type \in MatchTypes :
           /\ request' = [request EXCEPT !.available_values = options]
           /\ \E o \in Match(query, options, attribute_type) :
                  /\ selected_value' = o.value
                  /\ calls' = o.calls
                  /\ matches' = o.matches
    /\ pc' = "matched"
    /\ UNCHANGED <<attribute_name, image_path, standard_attribute, category,
                   resolved, now>>

SpecMatch == Init /\ [][MatchCall]_vars

(***************************************************************************)
(* find_standard_attribute on its own: applied to a name, then to its own *)
(* result                                                                  *)
(***************************************************************************)
\* every standard name and every alias of the alias table
TableNames ==
    Range(standard_attrs) \cup UNION { Range(aliases[i][2]) : i \in 1..Len(aliases) }

StandardNames == TableNames \cup { PinPai, <<"cai","zhi">>, <<"xie","gen">> }

\* find_standard_attribute(name)
StandardCall ==
    /\ pc = "idle"
    /\ \E name \in StandardNames, a \in LLMNameAnswers :
           LET r == find_standard_attribute(name, a)
           IN  /\ attribute_name' = name
               /\ standard_attribute' = r.value
               /\ calls' = IF r.llm
                           THEN <<Call("llm", <<"standard">> \o name, a)>>
                           ELSE <<>>
    /\ pc' = "named"
    /\ UNCHANGED <<request, image_path, category, resolved, selected_value,
                   matches, now>>

\* find_standard_attribute(standard_attribute), on the result of the first call
StandardAgain ==
    /\ pc = "named"
    /\ \E a \in LLMNameAnswers :
           LET r == find_standard_attribute(standard_attribute, a)
           IN  /\ resolved' = r.value
               /\ calls' = IF r.llm
                           THEN Append(calls, Call("llm", <<"standard">> \o standard_attribute, a))
                           ELSE calls
    /\ pc' = "renamed"
    /\ UNCHANGED <<request, attribute_name, image_path, standard_attribute,
                   category, selected_value, matches, now>>

NextStandard == StandardCall \/ StandardAgain

SpecStandard == Init /\ [][NextStandard]_vars

(***************************************************************************)
(* extract_primary_material and clean_attribute_value on their own: resolved*)
(* holds the argument of the call and selected_value what it returned      *)
(***************************************************************************)
\* the longest text drawn character by character
MaxTextLen == 3

\* every text of at most n characters of chars
Texts(chars, n) == UNION { [1..k -> chars] : k \in 0..n }

\* a material character, a blank and the five separators + ， , 、 /
MaterialChars == {"pi", " ", "+", "fwcomma", ",", "dunhao", "/"}

MaterialStrings ==
    Texts(MaterialChars, MaxTextLen) \cup
    { <<"niu","pi","ge2","+","zhi1","wu">>,                  \* 牛皮革+织物
      <<"zhen","pi">>,                                       \* 真皮
      <<"niu","pi",","," ","yang","pi","+","zhi1","wu">>,    \* 牛皮, 羊皮+织物
      <<" ","zhen","pi"," ","/","P","U">> }                  \* " 真皮 /PU"

\* a value character, a blank, the characters of the label 材质： and three of
\* the punctuation characters
ValueChars == {"pi", " ", "cai", "zhi", "fwcolon", "(", "dquote"}

ValueStrings ==
    Texts(ValueChars, MaxTextLen) \cup
    { NoneVal,
      <<"cai","zhi","fwcolon","zhen","pi","(","jing","xuan",")">>,       \* 材质：真皮(精选)
      <<"zhu","yao","cheng","fen1","fwcolon"," ","niu","pi","fwperiod">>, \* 主要成分： 牛皮。
      <<"lei","xing","fwcolon","cai","cai","zhi","fwcolon","zhi","fwcolon">>, \* 类型：材材质：质：
      <<"(","fwlparen"," ","zhen","dunhao","pi"," ","fwrparen",")">> }    \* (（ 真、皮 ）)

\* extract_primary_material(material_str) is called once
ExtractCall ==
    /\ pc = "idle"
    /\ \E material_str \in MaterialStrings :
           /\ resolved' = material_str
           /\ selected_value' = extract_primary_material(material_str)
    /\ pc' = "extracted"
    /\ UNCHANGED <<request, attribute_name, image_path, standard_attribute,
                   category, calls, matches, now>>

\* clean_attribute_value(value) is called once
CleanCall ==
    /\ pc = "idle"
    /\ \E value \in ValueStrings :
           /\ resolved' = value
           /\ selected_value' = clean_attribute_value(value)
    /\ pc' = "cleaned"
    /\ UNCHANGED <<request, attribute_name, image_path, standard_attribute,
                   category, calls, matches, now>>

\* clean_attribute_value is called on the value the first call returned
CleanAgain ==
    /\ pc = "cleaned"
    /\ resolved' = selected_value
    /\ selected_value' = clean_attribute_value(selected_value)
    /\ pc' = "recleaned"
    /\ UNCHANGED <<request, attribute_name, image_path, standard_attribute,
                   category, calls, matches, now>>

NextText == ExtractCall \/ CleanCall \/ CleanAgain

SpecText == Init /\ [][NextText]_vars

(***************************************************************************)
(* The properties                                                          *)
(***************************************************************************)
\* C1: whenever select_attribute_value returns, the selected value is an element
\* of the candidate values or the empty string.
C1_SelectedInVocabulary ==
    pc = "done" =>
        \/ selected_value = EmptyStr
        \/ InList(selected_value, request.available_values)

\* C2: select_attribute_value never raises an exception to its caller.
C2_NeverRaises == pc # "raised"

\* C3: every call of find_best_value_match returns an element of its candidate
\* list or the empty string, whatever the query, the hint and the model answer.
C3_MatchInVocabulary ==
    \A i \in 1..Len(matches) :
        \/ matches[i].value = EmptyStr
        \/ InList(matches[i].value, matches[i].options)

\* a call whose model answer held a comma went through the embedding step and
\* returned a candidate; reached together with a call whose answer was no candidate
C3_Witness ==
    /\ pc = "matched"
    /\ matches[1].embed
    /\ InList(matches[1].value, matches[1].options)
    /\ Len(matches[1].options) >= 2

\* C4: find_best_value_match returns "" for the empty candidate list and the sole
\* element for a one-element list, whatever the query and the attribute type,
\* without consulting the value map and without invoking the model.
C4_EmptyAndSingle ==
    \A i \in 1..Len(matches) :
        LET m == matches[i]
        IN  /\ m.options = <<>> => m.value = EmptyStr /\ ~m.table /\ ~m.llm /\ ~m.embed
            /\ Len(m.options) = 1 =>
                   m.value = m.options[1] /\ ~m.table /\ ~m.llm /\ ~m.embed

\* a one-element list, a query that is not its element, and a value-map hint
C4_Witness ==
    /\ pc = "matched"
    /\ Len(matches[1].options) = 1
    /\ matches[1].query = QiTa
    /\ matches[1].attribute_type = <<"cai","zhi">>
    /\ matches[1].value = <<"zhen","pi">>

\* the standard value at index i of value_map qualifies: it is among the options
\* and one of its triggers equals the query or occurs in it
C5_Qualifies(value_map, i, query, options) ==
    /\ \E j \in 1..Len(options) : options[j] = value_map[i][1]
    /\ \E k \in 1..Len(value_map[i][2]) :
           \/ value_map[i][2][k] = query
           \/ IsSubstr(value_map[i][2][k], query)

\* C5: with a value-map key as attribute type and at least two candidates,
\* find_best_value_match returns, without invoking the model, the first standard
\* value in declared order that is among the candidates and has a trigger equal
\* to or contained in the query; only when none qualifies is the model invoked.
C5_TableLookupFirst ==
    \A n \in 1..Len(matches) :
        LET m == matches[n]
        IN  (m.attribute_type \in value_mapping_keys /\ Len(m.options) >= 2) =>
                LET vm == value_mapping(m.attribute_type)
                    Q(i) == C5_Qualifies(vm, i, m.query, m.options)
                IN  IF \E i \in 1..Len(vm) : Q(i)
                    THEN \E i \in 1..Len(vm) :
                             /\ Q(i)
                             /\ \A j \in 1..(i - 1) : ~Q(j)
                             /\ m.value = vm[i][1]
                             /\ ~m.llm
                    ELSE m.llm

\* query 真牛皮, candidates [真皮, 人造革], type 材质: 真皮 by table lookup
C5_Witness ==
    /\ pc = "matched"
    /\ matches[1].query = <<"zhen","niu","pi">>
    /\ matches[1].options = << <<"zhen","pi">>, <<"ren","zao","ge2">> >>
    /\ matches[1].attribute_type = <<"cai","zhi">>
    /\ matches[1].value = <<"zhen","pi">>
    /\ ~matches[1].llm

\* the cyclic successor of the season of month: spring Mar-May, summer Jun-Aug,
\* autumn Sep-Nov, winter otherwise
C6_NextSeason(month) ==
    IF month \in 3..5 THEN XiaJi
    ELSE IF month \in 6..8 THEN QiuJi
    ELSE IF month \in 9..11 THEN DongJi
    ELSE ChunJi

\* C6: for a name that is a season standard name or alias, contains 季节 and not
\* 上市年份, and a candidate list with a value containing the next season,
\* select_attribute_value returns the first such candidate and calls neither the
\* database nor the model nor the image analysis.
C6_NextSeasonDirect ==
    (/\ pc = "done"
     /\ alias_lookup(attribute_name) = JiJie
     /\ IsSubstr(JiJie, attribute_name)
     /\ ~IsSubstr(ShangShiNianFen, attribute_name)
     /\ \E i \in 1..Len(request.available_values) :
            IsSubstr(C6_NextSeason(now.month), request.available_values[i]))
    => \E i \in 1..Len(request.available_values) :
           /\ IsSubstr(C6_NextSeason(now.month), request.available_values[i])
           /\ \A j \in 1..(i - 1) :
                  ~IsSubstr(C6_NextSeason(now.month), request.available_values[j])
           /\ selected_value = request.available_values[i]
           /\ calls = <<>>
           /\ matches = <<>>

\* name 季节, month April, candidates [春季, 夏季, 秋季, 冬季, 四季]: 夏季
C6_Witness ==
    /\ pc = "done"
    /\ attribute_name = JiJie
    /\ now.month = 4
    /\ request.available_values = << ChunJi, XiaJi, QiuJi, DongJi, <<"si","ji">> >>
    /\ selected_value = XiaJi
    /\ calls = <<>>

\* C7: a closure request without a usable image: the closure resolver returns
\* empty without invoking the image analysis, and the selected value is the
\* result of the one value-matcher call with the empty query (model-assisted when
\* there are at least two candidates), empty if that match yields nothing.
C7_ClosureWithoutImage ==
    (/\ pc = "done"
     /\ category = "closure"
     /\ (~request.image_path.given \/ ~request.image_path.exists
         \/ LowerExt(request.image_path.ext) \notin image_formats))
    => /\ resolved = EmptyStr
       /\ \A i \in 1..Len(calls) : calls[i].cap # "image"
       /\ IF request.available_values = <<>>
          THEN selected_value = EmptyStr /\ matches = <<>>
          ELSE /\ Len(matches) = 1
               /\ matches[1].query = EmptyStr
               /\ matches[1].options = request.available_values
               /\ selected_value = matches[1].value
               /\ Len(request.available_values) >= 2 => matches[1].llm

\* 闭合方式 with no image path and three candidates: the model's pick is returned
C7_Witness ==
    /\ pc = "done"
    /\ attribute_name = BiHeFangShi
    /\ ~request.image_path.given
    /\ Len(request.available_values) = 3
    /\ Len(matches) = 1
    /\ matches[1].llm
    /\ selected_value = <<"tao","jiao">>

\* the name contains none of the category keywords
C8_NoCategoryKeyword(name) ==
    /\ ~is_season_attribute(name) /\ ~is_material_attribute(name)
    /\ ~is_size_attribute(name) /\ ~is_closure_attribute(name)
    /\ ~is_toe_style_attribute(name) /\ ~is_heel_shape_attribute(name)
    /\ ~is_opening_depth_attribute(name) /\ ~is_style_attribute(name)
    /\ ~is_shoe_shape_attribute(name)

\* the trimmed name is neither a standard name nor an alias
C8_Unknown(name) ==
    \A i \in 1..Len(aliases) :
        name # aliases[i][1] /\ \A k \in 1..Len(aliases[i][2]) : name # aliases[i][2][k]

\* C8: for a trimmed name that is neither a standard name nor an alias, when the
\* model's answer is not a standard name (the empty answer included),
\* find_standard_attribute returns the name unchanged; if the name also contains
\* no category keyword, the general resolver handles the request and looks up
\* the field named by the raw name in the database.
C8_UnknownNameIsGeneral ==
    (pc \in {"resolve", "fallback", "done", "raised"} /\ C8_Unknown(attribute_name))
    => /\ calls # <<>>
       /\ calls[1].cap = "llm"
       /\ calls[1].what = <<"standard">> \o attribute_name
       /\ (\A i \in 1..Len(standard_attrs) : calls[1].answer # standard_attrs[i])
          => /\ standard_attribute = attribute_name
             /\ (C8_NoCategoryKeyword(attribute_name) /\ pc # "resolve")
                => /\ category = "general"
                   /\ Len(calls) >= 2
                   /\ calls[2].cap = "db"
                   /\ calls[2].fields = <<attribute_name>>

\* 品牌, the model answers 其他: the general resolver asks the database for 品牌
C8_Witness ==
    /\ pc = "done"
    /\ attribute_name = PinPai
    /\ calls[1].answer = QiTa
    /\ standard_attribute = PinPai
    /\ category = "general"

\* C9: find_standard_attribute returns every standard name unchanged without
\* invoking the model, and applying it to its own result changes nothing for
\* every name that is a standard name or an alias.
C9_AliasIdempotent ==
    /\ (pc \in {"named", "renamed"} /\ attribute_name \in Range(standard_attrs))
       => standard_attribute = attribute_name /\ calls = <<>>
    /\ (pc = "renamed" /\ attribute_name \in TableNames)
       => resolved = standard_attribute /\ calls = <<>>

\* the alias 帮面材质 resolved to 鞋面材质, and 鞋面材质 resolved to itself
C9_Witness ==
    /\ pc = "renamed"
    /\ attribute_name = <<"bang","mian","cai","zhi">>
    /\ standard_attribute = <<"xie","mian","cai","zhi">>
    /\ resolved = <<"xie","mian","cai","zhi">>

\* C10: for every month the current season is one of the four seasons (Mar-May
\* spring, Jun-Aug summer, Sep-Nov autumn, otherwise winter), get_next_season is
\* the successor of the current season, and the successor has period exactly 4:
\* four applications return the season, one, two or three never do.
C10_SeasonCycle ==
    now.month # 0 =>
        LET m == now.month
            s == get_current_season(m)
            n1 == season_map_get(s)
            n2 == season_map_get(n1)
            n3 == season_map_get(n2)
            n4 == season_map_get(n3)
        IN  /\ s \in {ChunJi, XiaJi, QiuJi, DongJi}
            /\ s = ChunJi <=> m \in 3..5
            /\ s = XiaJi <=> m \in 6..8
            /\ s = QiuJi <=> m \in 9..11
            /\ s = DongJi <=> m \in {12, 1, 2}
            /\ get_next_season(m) = n1
            /\ {n1, n2, n3} \subseteq {ChunJi, XiaJi, QiuJi, DongJi}
            /\ n4 = s
            /\ n1 # s /\ n2 # s /\ n3 # s

\* the season resolver ran in December: winter, whose successor wraps to spring
C10_Witness ==
    /\ category = "season"
    /\ now.month = 12
    /\ get_current_season(now.month) = DongJi
    /\ get_next_season(now.month) = ChunJi

\* the first position of s that holds one of the separators, or 0
C11_FirstSeparator(s) ==
    FirstIndex([i \in 1..Len(s) |-> \E k \in 1..Len(material_separators) :
                                        s[i] = material_separators[k]])

\* C11: extract_primary_material returns the trimmed text that precedes the
\* first occurrence of any separator (+ ， , 、 /), so the result holds no
\* separator; a string with no separator is returned trimmed, the empty string
\* yields the empty string.
C11_PrimaryMaterial ==
    pc = "extracted" =>
        LET i == C11_FirstSeparator(resolved)
        IN  /\ selected_value =
                   Strip(IF i = 0 THEN resolved ELSE SubSeq(resolved, 1, i - 1))
            /\ C11_FirstSeparator(selected_value) = 0

\* the punctuation characters 。！？；：、（）()"' of the claim
C12_Punctuation ==
    {"fwperiod", "fwbang", "fwquestion", "fwsemicolon", "fwcolon", "dunhao",
     "fwlparen", "fwrparen", "(", ")", "dquote", "squote"}

\* the label prefixes 材质：, 主要成分：, 类型：
C12_Labels ==
    { <<"cai","zhi","fwcolon">>, <<"zhu","yao","cheng","fen1","fwcolon">>,
      <<"lei","xing","fwcolon">> }

\* C12: clean_attribute_value returns a string with none of the label prefixes,
\* none of the punctuation characters and no leading or trailing whitespace; an
\* empty or missing input yields the empty string; cleaning a cleaned value
\* changes nothing.
C12_Cleaned ==
    /\ pc \in {"cleaned", "recleaned"} =>
           /\ \A l \in C12_Labels : ~IsSubstr(l, selected_value)
           /\ \A i \in 1..Len(selected_value) : selected_value[i] \notin C12_Punctuation
           /\ selected_value # <<>> =>
                  ~IsSpace(selected_value[1]) /\ ~IsSpace(selected_value[Len(selected_value)])
           /\ resolved \in {EmptyStr, NoneVal} => selected_value = EmptyStr
    /\ pc = "recleaned" => selected_value = resolved

\* 材质：真皮(精选) was cleaned to 真皮精选, and cleaning that again left it alone
C12_Witness ==
    /\ pc = "recleaned"
    /\ resolved = <<"zhen","pi","jing","xuan">>
    /\ selected_value = <<"zhen","pi","jing","xuan">>

\* the categories in their priority, each with its keywords: 季节 适用季节
\* 上市年份季节; 材质 面料 帮面 鞋垫材质 鞋底材质; 高度 厚度 后跟高 靴筒高 鞋跟高
\* 鞋帮高度; 闭合方式 鞋扣; 鞋头 鞋尖; 鞋跟; 开口深度 开口大小; 风格 鞋子风格;
\* 款式 鞋子款式
C13_Priority ==
    << <<"season", { <<"ji","jie">>, <<"shi4fit","yong","ji","jie">>,
                     <<"shang","shi4city","nian","fen","ji","jie">> }>>,
       <<"material", { <<"cai","zhi">>, <<"mian","liao">>, <<"bang","mian">>,
                       <<"xie","dian","cai","zhi">>, <<"xie","di","cai","zhi">> }>>,
       <<"size", { <<"gao","du">>, <<"hou4thick","du">>, <<"hou","gen","gao">>,
                   <<"xue","tong","gao">>, <<"xie","gen","gao">>,
                   <<"xie","bang","gao","du">> }>>,
       <<"closure", { <<"bi","he","fang","shi4">>, <<"xie","kou4">> }>>,
       <<"toe_style", { <<"xie","tou">>, <<"xie","jian">> }>>,
       <<"heel_shape", { <<"xie","gen">> }>>,
       <<"opening_depth", { <<"kai","kou3","shen","du">>, <<"kai","kou3","da","xiao">> }>>,
       <<"style", { <<"feng","ge">>, <<"xie","zi","feng","ge">> }>>,
       <<"shoe_shape", { <<"kuan","shi4">>, <<"xie","zi","kuan","shi4">> }>> >>

\* the first category in priority with a keyword in the name it is tested on:
\* season on season_name, every other category on other_name; general if none
C13_FirstCategory(season_name, other_name) ==
    LET tested(i) == IF i = 1 THEN season_name ELSE other_name
        i == FirstIndex([k \in 1..Len(C13_Priority) |->
                            \E w \in C13_Priority[k][2] : IsSubstr(w, tested(k))])
    IN  IF i = 0 THEN "general" ELSE C13_Priority[i][1]

\* C13 as claimed: the category of the resolver that ran is the first category,
\* in the fixed priority, with a keyword in the trimmed raw name, whatever the
\* canonical name is.
C13_CategoryFromRawName ==
    pc \in {"fallback", "raised", "done"} =>
        category = C13_FirstCategory(attribute_name, attribute_name)

\* C13, amended: the category of the resolver that ran is the first category in
\* the fixed priority with a keyword in the name it is tested on, the season test
\* being made on the trimmed raw name and every other test on the canonical
\* name; exactly one resolver runs per request: the category is set once, by
\* the step that runs the resolver, and never changes afterwards.
C13_CategoryFromCanonicalName ==
    /\ [](pc \in {"fallback", "raised", "done"} =>
              category = C13_FirstCategory(attribute_name, standard_attribute))
    /\ [][/\ category # "none" => category' = category
          /\ category' # category => pc = "resolve" /\ pc' \in {"fallback", "raised"}]_vars

\* 跟高 holds no category keyword; its canonical name 后跟高 made it a size request
C13_Witness ==
    /\ pc = "done"
    /\ attribute_name = <<"gen","gao">>
    /\ standard_attribute = HouGenGao
    /\ category = "size"
    /\ C13_FirstCategory(attribute_name, attribute_name) = "general"

\* the six resolvers that need an image
C14_ImageCategories ==
    {"closure", "toe_style", "heel_shape", "opening_depth", "style", "shoe_shape"}

\* C14: each of the six image-dependent resolvers, called with an absent or
\* non-existent image path, returns the empty string at once: it does not raise,
\* and it invokes neither the image analysis nor the value matcher.
C14_NoImageReturnsEmpty ==
    (/\ pc \in {"fallback", "raised"}
     /\ category \in C14_ImageCategories
     /\ (~image_path.given \/ ~image_path.exists))
    => /\ pc # "raised"
       /\ resolved = EmptyStr
       /\ \A i \in 1..Len(calls) : calls[i].cap # "image"
       /\ matches = <<>>

\* the dict the one get_product_data call of the request returned
C15_ProductData ==
    LET i == FirstIndex([k \in 1..Len(calls) |-> calls[k].cap = "db"])
    IN  calls[i].answer

\* the fields of the claim, in its priority: the canonical name, 鞋面材质,
\* 鞋垫材质, 鞋底材质, 帮面材质, 内里材质, 材质
C15_Order ==
    << standard_attribute, <<"xie","mian","cai","zhi">>, <<"xie","dian","cai","zhi">>,
       <<"xie","di","cai","zhi">>, <<"bang","mian","cai","zhi">>,
       <<"nei","li","cai","zhi">>, <<"cai","zhi">> >>

\* C15: the material resolver uses the first non-empty field of the fetched
\* record in the priority order above, a present but empty field being skipped;
\* the primary material of that value goes to the value matcher, whose result
\* the resolver returns; the resolver returns empty without a matcher call only
\* if no field of the record is non-empty.
C15_FirstNonEmptyField ==
    (pc = "fallback" /\ category = "material") =>
        LET pd == C15_ProductData
            i == FirstIndex([k \in 1..Len(C15_Order) |->
                                /\ C15_Order[k] \in DOMAIN pd
                                /\ Truthy(pd[C15_Order[k]])])
        IN  IF i = 0
            THEN resolved = EmptyStr /\ matches = <<>>
            ELSE /\ Len(matches) = 1
                 /\ matches[1].query = extract_primary_material(pd[C15_Order[i]])
                 /\ matches[1].options = request.available_values
                 /\ resolved = matches[1].value

\* the size sub-category keywords of the claim are in the name: 后跟高 鞋跟高,
\* 靴筒高, 底厚 台高
C16_HasSizeKeyword(name) ==
    \E w \in { HouGenGao, <<"xie","gen","gao">>, <<"xue","tong","gao">>,
               <<"di","hou4thick">>, <<"tai","gao">> } : IsSubstr(w, name)

\* the fields of the record that answer the size attribute name, in the order
\* they are tried: the name itself, then the fields of its sub-category
C16_Fields(name) ==
    <<name>> \o
    (IF IsSubstr(HouGenGao, name) \/ IsSubstr(<<"xie","gen","gao">>, name)
     THEN << HouGenGao, <<"xie","gen","gao","du">>, <<"heel_height">> >>
     ELSE IF IsSubstr(<<"xue","tong","gao">>, name)
     THEN << <<"xue","tong","gao","du">>, <<"tube_height">> >>
     ELSE IF IsSubstr(<<"di","hou4thick">>, name) \/ IsSubstr(<<"tai","gao">>, name)
     THEN << <<"xie","di","hou4thick","du">>, <<"platform_height">> >>
     ELSE <<>>)

\* C16: for a size attribute whose name carries a heel-height, tube-height or
\* platform keyword and a usable image, the size resolver invokes the image
\* analysis exactly when no database value is found: when the field that answers
\* the name holds None, and when the record has no matching field at all; a
\* field holding a value, the empty string included, does not trigger it.
C16_ImageFallback ==
    (/\ pc = "fallback"
     /\ category = "size"
     /\ C16_HasSizeKeyword(standard_attribute)
     /\ image_path.given)
    => LET pd == C15_ProductData
           fields == C16_Fields(standard_attribute)
           i == FirstIndex([k \in 1..Len(fields) |-> fields[k] \in DOMAIN pd])
           missing == i = 0 \/ pd[fields[i]] = NoneVal
       IN  missing <=> \E k \in 1..Len(calls) : calls[k].cap = "image"

C18_CurrentSeason(month) ==
    IF month \in 3..5 THEN ChunJi
    ELSE IF month \in 6..8 THEN XiaJi
    ELSE IF month \in 9..11 THEN QiuJi
    ELSE DongJi

\* the calls of the season resolver to the model
C18_SeasonCalls ==
    SelectSeq(calls, LAMBDA c : c.cap = "llm" /\ c.what # <<>> /\ c.what[1] = "season")

\* C18: when the trimmed raw name contains 上市年份, the season resolver runs
\* (the name canonicalizes to 季节) and returns the first candidate, in list
\* order, that contains both the current year and the current season, without
\* invoking the model; when no candidate contains both it asks the model once
\* and returns the answer as is, with no membership check and no matcher call.
C18_ReleaseYearSeason ==
    (pc = "fallback" /\ IsSubstr(ShangShiNianFen, attribute_name)) =>
        LET options == request.available_values
            year == IntToStr(now.year)
            season == C18_CurrentSeason(now.month)
            i == FirstIndex([k \in 1..Len(options) |->
                                IsSubstr(year, options[k]) /\ IsSubstr(season, options[k])])
        IN  /\ category = "season"
            /\ matches = <<>>
            /\ IF i # 0
               THEN resolved = options[i] /\ C18_SeasonCalls = <<>>
               ELSE /\ Len(C18_SeasonCalls) = 1
                    /\ C18_SeasonCalls[1].what = <<"season">> \o year \o season
                    /\ resolved = C18_SeasonCalls[1].answer

\* 上市年份季节 in October of the last year with that year's four candidates:
\* the autumn candidate without the model; reached as well with [真皮, 人造革], where the
\* model's answer 其他 is returned
C18_Witness ==
    /\ pc = "fallback"
    /\ attribute_name = ShangShiNianFen \o JiJie
    /\ standard_attribute = JiJie
    /\ now = [year |-> LastYear, month |-> 10]
    /\ resolved = IntToStr(LastYear) \o <<"nian">> \o QiuJi
    /\ calls = <<>>

\* the value-map keys 材质, 闭合方式, 后跟高
C19_ValueMapKeys == { <<"cai","zhi">>, BiHeFangShi, HouGenGao }

\* C19: when the resolver returned the empty string and the candidate list is
\* non-empty, select_attribute_value calls the value matcher exactly once more,
\* with the empty query, the candidates and the canonical name as hint if it is a
\* value-map key (no hint otherwise), and returns that call's result, empty
\* included: the first candidate is never substituted. When the resolver
\* returned a non-empty value (or there is no candidate), no further call is
\* made and the resolver's value is returned unchanged.
C19_FallbackOnce ==
    [][pc = "fallback" =>
          /\ pc' = "done"
          /\ IF resolved = EmptyStr /\ request.available_values # <<>>
             THEN /\ Len(matches') = Len(matches) + 1
                  /\ SubSeq(matches', 1, Len(matches)) = matches
                  /\ LET m == matches'[Len(matches')]
                     IN  /\ m.query = EmptyStr
                         /\ m.options = request.available_values
                         /\ m.attribute_type =
                                IF standard_attribute \in C19_ValueMapKeys
                                THEN standard_attribute ELSE NoneVal
                         /\ selected_value' = m.value
                         /\ (Len(m.options) >= 2 /\ ~InList(m.answer, m.options)
                             /\ ~IsSubstr(<<",">>, m.answer))
                            => selected_value' = EmptyStr
             ELSE /\ matches' = matches
                  /\ calls' = calls
                  /\ selected_value' = resolved]_vars

\* 材质, which the model left as it is: the material resolver found nothing, and
\* the one fallback match with hint 材质, failing too, left the value empty
C19_Witness ==
    /\ pc = "done"
    /\ standard_attribute = <<"cai","zhi">>
    /\ category = "material"
    /\ resolved = EmptyStr
    /\ Len(request.available_values) = 2
    /\ Len(matches) = 1
    /\ matches[1].query = EmptyStr
    /\ matches[1].attribute_type = <<"cai","zhi">>
    /\ selected_value = EmptyStr

\* the calls made to capability cap so far
C20_CallsTo(cap) == SelectSeq(calls, LAMBDA c : c.cap = cap)

\* C20: within one select_attribute_value call nothing is retried: once a
\* text-completion call has returned the empty answer, the same prompt is not
\* issued again; the database and the image analysis are each invoked at most
\* once; a failed matcher call yields the empty value.
C20_NoRetry ==
    /\ \A i, j \in 1..Len(calls) :
           (/\ i < j
            /\ calls[i].cap = "llm"
            /\ calls[j].cap = "llm"
            /\ calls[i].answer = EmptyStr)
           => calls[j].what # calls[i].what
    /\ Len(C20_CallsTo("db")) <= 1
    /\ Len(C20_CallsTo("image")) <= 1
    /\ \A k \in 1..Len(matches) :
           (matches[k].llm /\ matches[k].answer = EmptyStr) => matches[k].value = EmptyStr

\* the canonical names of the alias table: 鞋面材质 鞋底材质 鞋垫材质 内里材质
\* 闭合方式 开口深度 风格 款式 鞋头款式 鞋跟款式 季节 后跟高 靴筒高度 鞋底厚度
C21_CanonicalNames == { aliases[i][1] : i \in 1..Len(aliases) }

\* C21: find_standard_attribute makes no text-completion call when the name is
\* a canonical name or an alias and exactly one otherwise, whatever the answer
\* (unrecognized and empty answers included), and its result is a canonical
\* name or the name it was given.
C21_AtMostOneCall ==
    pc = "named" =>
        /\ Len(calls) = IF attribute_name \in TableNames THEN 0 ELSE 1
        /\ \A k \in 1..Len(calls) :
               calls[k].cap = "llm" /\ calls[k].what = <<"standard">> \o attribute_name
        /\ standard_attribute \in C21_CanonicalNames \cup {attribute_name}
        /\ (calls # <<>> /\ calls[1].answer \notin C21_CanonicalNames)
           => standard_attribute = attribute_name

\* 品牌, answered 其他: one call, and the name comes back as it was given
C21_Witness ==
    /\ pc = "named"
    /\ attribute_name = PinPai
    /\ Len(calls) = 1
    /\ calls[1].answer = QiTa
    /\ standard_attribute = PinPai

\* the image path of the request exists and has a supported extension
C22_UsablePath ==
    /\ request.image_path.given
    /\ request.image_path.exists
    /\ request.image_path.ext \in {".jpg", ".JPG", ".jpeg", ".png", ".webp"}

\* C22: in every execution of select_attribute_value the image analysis is
\* invoked only with a path that exists and has a supported extension: for a
\* missing, non-existent or unsupported path the resolvers are handed no path
\* (the size resolver passes on what it is handed) and no image call is made, in
\* any category.
C22_ImageOnlyWithUsablePath ==
    /\ (\E k \in 1..Len(calls) : calls[k].cap = "image") => C22_UsablePath
    /\ (pc # "idle" /\ ~C22_UsablePath) => ~image_path.given

\* 后跟高 with None in the record and an existing .JPG: the size resolver's
\* image fallback made the call
C22_Witness ==
    /\ category = "size"
    /\ request.image_path = [given |-> TRUE, exists |-> TRUE, ext |-> ".JPG"]
    /\ \E k \in 1..Len(calls) : calls[k].cap = "image"

\* C23: in the table lookup an exact trigger match is never pre-empted: with a
\* value-map key as attribute type and at least two candidates, a query equal to
\* a trigger of a standard value that is among the candidates makes
\* find_best_value_match return that standard value, whatever substring triggers
\* earlier standard values have.
C23_ExactTriggerWins ==
    \A n \in 1..Len(matches) :
        LET m == matches[n]
        IN  (m.attribute_type \in value_mapping_keys /\ Len(m.options) >= 2) =>
                LET vm == value_mapping(m.attribute_type)
                IN  \A i \in 1..Len(vm) :
                        (InList(m.query, vm[i][2]) /\ InList(vm[i][1], m.options))
                        => m.value = vm[i][1]

\* C24: when the table lookup does not decide and the model's answer is one of
\* at least two candidates, find_best_value_match returns that answer, for every
\* candidate string, one that holds an ASCII comma included: the embedding step
\* never replaces an answer that is a candidate.
C24_MemberAnswerReturned ==
    \A n \in 1..Len(matches) :
        LET m == matches[n]
        IN  (m.llm /\ Len(m.options) >= 2 /\ InList(m.answer, m.options))
            => m.value = m.answer

\* C25: within select_attribute_value the value map decides a match only in the
\* closure category: a match that carries a hint and a non-empty query is the
\* closure resolver's, with hint 闭合方式; a match with the empty query and at
\* least two candidates, as every fallback match is, invokes the model; so no
\* match is decided by the 材质 or the 后跟高 value map.
C25_TableOnlyForClosure ==
    \A n \in 1..Len(matches) :
        LET m == matches[n]
            decided == m.table /\ ~m.llm
        IN  /\ (m.attribute_type # NoneVal /\ m.query # EmptyStr)
               => category = "closure" /\ m.attribute_type = BiHeFangShi /\ n = 1
            /\ (m.query = EmptyStr /\ Len(m.options) >= 2) => m.llm
            /\ decided => category = "closure" /\ m.attribute_type = BiHeFangShi
            /\ m.attribute_type \in { <<"cai","zhi">>, HouGenGao } => ~decided

\* 后跟高 with nothing in the record: the fallback match carried the hint 后跟高
\* and the empty query, and the model was asked
C25_Witness ==
    /\ pc = "done"
    /\ standard_attribute = HouGenGao
    /\ category = "size"
    /\ Len(matches) = 1
    /\ matches[1].attribute_type = HouGenGao
    /\ matches[1].query = EmptyStr
    /\ matches[1].table
    /\ matches[1].llm

====
